---- MODULE Spec2Model ----
(***************************************************************************)
(* A model of conceptnet5/nodes.py: language-code canonicalization, text   *)
(* standardization, concept URI construction and language extraction.      *)
(*                                                                         *)
(* A Python str is a sequence of one-character strings, so that lower(),   *)
(* replace(), tokenization, joining and splitting are computed character   *)
(* by character.  Python's None is the one-element sequence <<"None">>,    *)
(* which is no text (every character of a text is one character long).     *)
(***************************************************************************)
EXTENDS Integers, Sequences, FiniteSets, TLC

VARIABLES pc,            \* "idle" between calls, "done" when a call has returned or raised
          op,            \* the function of nodes.py that was called
          lang_in,       \* the raw `lang` / `language` argument
          text_in,       \* the `text` / `topic` argument
          more_in,       \* the `*more` arguments (may contain None)
          uri_in,        \* the `uri` argument of get_uri_language
          uri_args,      \* the sub-URIs uri_in was assembled from (<<>>: not a compound)
          token_filter,  \* local of standardized_concept_uri
          lang,          \* local of standardized_concept_uri after canonicalization
          norm_text,     \* local of standardized_concept_uri
          more_text,     \* local of standardized_concept_uri
          result,        \* the returned value
          raised,        \* the exception type raised, or NoError
          message        \* the words of the exception's message

vars == <<pc, op, lang_in, text_in, more_in, uri_in, uri_args, token_filter,
          lang, norm_text, more_text, result, raised, message>>

None == <<"None">>
NoError == "no error"
NoFilter == "None"
EnglishFilter == "english_filter"

(***************************************************************************)
(* Bounds of the model.                                                    *)
(***************************************************************************)
TextMaxLen == 3
MoreMaxLen == 2
TopicMaxLen == 6
MaxDepth == 2

(***************************************************************************)
(* Characters and str methods.                                             *)
(***************************************************************************)
UpperLetters == <<"A","B","C","D","E","F","G","H","I","J","K","L","M",
                  "N","O","P","Q","R","S","T","U","V","W","X","Y","Z">>
LowerLetters == <<"a","b","c","d","e","f","g","h","i","j","k","l","m",
                  "n","o","p","q","r","s","t","u","v","w","x","y","z">>
Digits == {"0","1","2","3","4","5","6","7","8","9"}

Range(s) == {s[i] : i \in DOMAIN s}

CharLower(c) ==
    IF \E i \in DOMAIN UpperLetters : UpperLetters[i] = c
    THEN LowerLetters[CHOOSE i \in DOMAIN UpperLetters : UpperLetters[i] = c]
    ELSE c

CharUpper(c) ==
    IF \E i \in DOMAIN LowerLetters : LowerLetters[i] = c
    THEN UpperLetters[CHOOSE i \in DOMAIN LowerLetters : LowerLetters[i] = c]
    ELSE c

\* str.lower()
StrLower(s) == IF s = <<>> THEN <<>> ELSE [i \in 1..Len(s) |-> CharLower(s[i])]

\* str.upper(), used to enumerate raw language codes
StrUpper(s) == IF s = <<>> THEN <<>> ELSE [i \in 1..Len(s) |-> CharUpper(s[i])]

\* str.replace(old, new) for one-character old and new
StrReplace(s, old, new) ==
    IF s = <<>> THEN <<>>
    ELSE [i \in 1..Len(s) |-> IF s[i] = old THEN new ELSE s[i]]

\* str.replace(old, '') for a one-character old
RECURSIVE StrDelete(_, _)
StrDelete(s, old) ==
    IF s = <<>> THEN <<>>
    ELSE IF Head(s) = old THEN StrDelete(Tail(s), old)
    ELSE <<Head(s)>> \o StrDelete(Tail(s), old)

\* str.startswith(prefix)
StartsWith(s, prefix) ==
    /\ Len(s) >= Len(prefix)
    /\ SubSeq(s, 1, Len(prefix)) = prefix

\* sep.join(pieces)
RECURSIVE StrJoin(_, _)
StrJoin(pieces, sep) ==
    IF pieces = <<>> THEN <<>>
    ELSE IF Len(pieces) = 1 THEN pieces[1]
    ELSE pieces[1] \o sep \o StrJoin(Tail(pieces), sep)

\* str.split('/'): always at least one piece
RECURSIVE SplitFrom(_, _, _, _)
SplitFrom(s, i, cur, acc) ==
    IF i > Len(s) THEN Append(acc, cur)
    ELSE IF s[i] = "/" THEN SplitFrom(s, i + 1, <<>>, Append(acc, cur))
    ELSE SplitFrom(s, i + 1, Append(cur, s[i]), acc)

\* str.lstrip('/')
RECURSIVE LStripSlash(_)
LStripSlash(s) ==
    IF s # <<>> /\ Head(s) = "/" THEN LStripSlash(Tail(s)) ELSE s

\* str.rstrip('/')
RECURSIVE RStripSlash(_)
RStripSlash(s) ==
    IF s # <<>> /\ s[Len(s)] = "/" THEN RStripSlash(SubSeq(s, 1, Len(s) - 1)) ELSE s

\* str.strip('/')
StripSlash(s) == RStripSlash(LStripSlash(s))

(***************************************************************************)
(* LCODE_ALIASES, as the (key, value) pairs of the dict literal.           *)
(***************************************************************************)
LCODE_ALIASES ==
    { <<<<"c","m","n">>, <<"z","h">>>>,
      <<<<"y","u","e">>, <<"z","h">>>>,
      <<<<"z","h","_","t","w">>, <<"z","h">>>>,
      <<<<"z","h","_","c","n">>, <<"z","h">>>>,
      <<<<"z","h","-","t","w">>, <<"z","h">>>>,
      <<<<"z","h","-","c","n">>, <<"z","h">>>>,
      <<<<"n","d","s","-","d","e">>, <<"n","d","s">>>>,
      <<<<"n","d","s","-","n","l">>, <<"n","d","s">>>>,
      <<<<"z","s","m">>, <<"m","s">>>>,
      <<<<"i","d">>, <<"m","s">>>>,
      <<<<"n","n">>, <<"n","o">>>>,
      <<<<"n","b">>, <<"n","o">>>>,
      <<<<"b","s">>, <<"s","h">>>>,
      <<<<"h","r">>, <<"s","h">>>>,
      <<<<"s","r">>, <<"s","h">>>>,
      <<<<"h","b","s">>, <<"s","h">>>>,
      <<<<"s","r","-","l","a","t","n">>, <<"s","h">>>>,
      <<<<"s","r","-","c","y","r","l">>, <<"s","h">>>>,
      <<<<"a","r","b">>, <<"a","r">>>>,
      <<<<"a","r","z">>, <<"a","r">>>>,
      <<<<"a","r","y">>, <<"a","r">>>>,
      <<<<"c","k","b">>, <<"k","u">>>>,
      <<<<"m","v","f">>, <<"m","n">>>>,
      <<<<"t","l">>, <<"f","i","l">>>>,
      <<<<"v","r","o">>, <<"e","t">>>>,
      <<<<"s","g","s">>, <<"l","t">>>>,
      <<<<"c","i","w">>, <<"o","j">>>>,
      <<<<"x","a","l">>, <<"x","w","o">>>>,
      <<<<"f","f","m">>, <<"f","f">>>> }

AliasKeys == {p[1] : p \in LCODE_ALIASES}
AliasValues == {p[2] : p \in LCODE_ALIASES}

\* LCODE_ALIASES[code], for code in LCODE_ALIASES
AliasOf(code) == (CHOOSE p \in LCODE_ALIASES : p[1] = code)[2]

(***************************************************************************)
(* The collaborators of nodes.py: the tokenizer, the English filter and    *)
(* the URI utilities.                                                      *)
(***************************************************************************)
IsWordChar(c) ==
    \/ c \in Range(UpperLetters)
    \/ c \in Range(LowerLetters)
    \/ c \in Digits

\* simple_tokenize: the maximal runs of word characters, in order, lowercased
RECURSIVE TokenizeFrom(_, _, _, _)
TokenizeFrom(s, i, cur, acc) ==
    IF i > Len(s) THEN (IF cur = <<>> THEN acc ELSE Append(acc, cur))
    ELSE IF IsWordChar(s[i])
         THEN TokenizeFrom(s, i + 1, Append(cur, CharLower(s[i])), acc)
         ELSE TokenizeFrom(s, i + 1, <<>>, IF cur = <<>> THEN acc ELSE Append(acc, cur))

simple_tokenize(text) == TokenizeFrom(text, 1, <<>>, <<>>)

STOPWORDS == { <<"a">>, <<"a","n">>, <<"t","h","e">> }
DROP_FIRST == { <<"t","o">> }

IsNotStopword(token) == token \notin STOPWORDS

RECURSIVE DropFirst(_)
DropFirst(tokens) ==
    IF tokens # <<>> /\ Head(tokens) \in DROP_FIRST THEN DropFirst(Tail(tokens))
    ELSE tokens

\* english_filter: removes function words and the 'to' of an infinitive
english_filter(tokens) == DropFirst(SelectSeq(tokens, IsNotStopword))

\* join_uri(*pieces)
join_uri(pieces) ==
    <<"/">> \o StrJoin([i \in 1..Len(pieces) |-> StripSlash(pieces[i])], <<"/">>)

\* concept_uri(lang, text, *more)
concept_uri(l, text, more) == join_uri(<<<<"c">>, l, text>> \o more)

\* split_uri(uri)
split_uri(uri) ==
    LET uri2 == LStripSlash(uri)
    IN  IF uri2 = <<>> THEN <<>> ELSE SplitFrom(uri2, 1, <<>>, <<>>)

(***************************************************************************)
(* standardize_text(text, token_filter=None)                               *)
(***************************************************************************)
standardize_text_delete_underscores(text, filter) ==
    LET tokens == simple_tokenize(StrDelete(text, "_"))
        kept == IF filter # NoFilter THEN english_filter(tokens) ELSE tokens
    IN  StrJoin(kept, <<"_">>)

standardize_text(text, filter) ==
    LET tokens == simple_tokenize(StrReplace(text, "_", " "))
        kept == IF filter # NoFilter THEN english_filter(tokens) ELSE tokens
    IN  StrJoin(kept, <<"_">>)

(***************************************************************************)
(* standardized_concept_uri(lang, text, *more)                             *)
(***************************************************************************)
EN == <<"e","n">>

\* lines 538-541: the filter is chosen from the raw argument
SelectTokenFilter(raw) == IF raw = EN THEN EnglishFilter ELSE NoFilter

\* lines 542-544
CanonicalLang_lower_last(raw) ==
    StrLower(IF raw \in AliasKeys THEN AliasOf(raw) ELSE raw)

CanonicalLang(raw) ==
    LET lowered == StrLower(raw)
    IN  IF lowered \in AliasKeys THEN AliasOf(lowered) ELSE lowered

\* lines 546-547
RECURSIVE MoreText_keep_none(_, _)
MoreText_keep_none(more, filter) ==
    IF more = <<>> THEN <<>>
    ELSE <<IF Head(more) = None THEN <<>> ELSE standardize_text(Head(more), filter)>>
         \o MoreText_keep_none(Tail(more), filter)

RECURSIVE MoreText_unfiltered(_, _)
MoreText_unfiltered(more, filter) ==
    IF more = <<>> THEN <<>>
    ELSE IF Head(more) = None THEN MoreText_unfiltered(Tail(more), filter)
    ELSE <<standardize_text(Head(more), NoFilter)>>
         \o MoreText_unfiltered(Tail(more), filter)

RECURSIVE MoreText(_, _)
MoreText(more, filter) ==
    IF more = <<>> THEN <<>>
    ELSE IF Head(more) = None THEN MoreText(Tail(more), filter)
    ELSE <<standardize_text(Head(more), filter)>> \o MoreText(Tail(more), filter)

\* the raw code passed on to concept_uri
standardized_concept_uri_raw_lang(raw, text, more) ==
    LET tf == SelectTokenFilter(raw)
        l == CanonicalLang(raw)
        nt == standardize_text(text, tf)
        mt == MoreText(more, tf)
    IN  [token_filter |-> tf, lang |-> l, norm_text |-> nt, more_text |-> mt,
         uri |-> concept_uri(raw, nt, mt)]

\* the locals and the returned URI of one call
standardized_concept_uri(raw, text, more) ==
    LET tf == SelectTokenFilter(raw)
        l == CanonicalLang(raw)
        nt == standardize_text(text, tf)
        mt == MoreText(more, tf)
    IN  [token_filter |-> tf, lang |-> l, norm_text |-> nt, more_text |-> mt,
         uri |-> concept_uri(l, nt, mt)]

(***************************************************************************)
(* topic_to_concept(language, topic)                                       *)
(***************************************************************************)
\* the number of consecutive characters of s from index i on that are not `stop`
RECURSIVE RunLen(_, _, _)
RunLen(s, i, stop) ==
    IF i > Len(s) \/ s[i] = stop THEN 0 ELSE 1 + RunLen(s, i + 1, stop)

NoMatch == [matched |-> FALSE, group1 |-> <<>>, group2 |-> <<>>, end |-> 0]

\* ([^)]+)\) after a group 1 of length i: group 2 of length j, longest first
RECURSIVE MatchGroup2(_, _, _)
MatchGroup2(s, i, j) ==
    IF j < 1 THEN NoMatch
    ELSE IF i + 3 + j <= Len(s) /\ s[i + 3 + j] = ")"
         THEN [matched |-> TRUE, group1 |-> SubSeq(s, 1, i),
               group2 |-> SubSeq(s, i + 3, i + 2 + j), end |-> i + 3 + j]
         ELSE MatchGroup2(s, i, j - 1)

\* ([^(]+) \( ... from the start of s: group 1 of length i, longest first
RECURSIVE MatchGroup1(_, _)
MatchGroup1(s, i) ==
    IF i < 1 THEN NoMatch
    ELSE IF i + 2 <= Len(s) /\ s[i + 1] = " " /\ s[i + 2] = "("
         THEN LET m == MatchGroup2(s, i, RunLen(s, i + 3, ")"))
              IN  IF m.matched THEN m ELSE MatchGroup1(s, i - 1)
         ELSE MatchGroup1(s, i - 1)

\* re.fullmatch in place of re.match
re_fullmatch_topic(s) ==
    LET m == MatchGroup1(s, RunLen(s, 1, "("))
    IN  IF m.matched /\ m.end = Len(s) THEN m ELSE NoMatch

\* re.match(r'([^(]+) \(([^)]+)\)', topic)
re_match_topic(s) == MatchGroup1(s, RunLen(s, 1, "("))

topic_to_concept(language, topic) ==
    LET t == StrReplace(topic, "_", " ")
        match == re_match_topic(t)
    IN  IF ~match.matched
        THEN standardized_concept_uri(language, t, <<>>).uri
        ELSE standardized_concept_uri(
                 language, match.group1, <<<<"n">>, <<"w","p">>, match.group2>>).uri

(***************************************************************************)
(* standardized_concept_name(lang, text) and normalized_concept_name       *)
(***************************************************************************)
standardized_concept_name_returns(l, text) ==
    [raised |-> NoError, message |-> <<>>, value |-> standardize_text(text, NoFilter)]

standardized_concept_name(l, text) ==
    [raised |-> "NotImplementedError",
     message |-> <<"standardized_concept_name", "has", "been", "removed.",
                   "Use", "standardize_text", "instead.">>,
     value |-> None]

normalized_concept_name(l, text) == standardized_concept_name(l, text)

(***************************************************************************)
(* Compound URIs (conceptnet5.uri)                                         *)
(***************************************************************************)
RECURSIVE CommaSeparated(_)
CommaSeparated(args) ==
    IF args = <<>> THEN <<>>
    ELSE IF Len(args) = 1 THEN <<args[1]>>
    ELSE <<args[1], <<",">>>> \o CommaSeparated(Tail(args))

\* compound_uri(op, args)
compound_uri(operator, args) ==
    join_uri(<<operator, <<"[">>>> \o CommaSeparated(args) \o <<<<"]">>>>)

\* the loop of parse_compound_uri over pieces[2:-1]
RECURSIVE ParseChunks(_, _, _, _, _)
ParseChunks(pieces, i, depth, current, chunks) ==
    LET chunk == <<"/">> \o StripSlash(StrJoin(current, <<"/">>))
    IN  IF i > Len(pieces) - 1 THEN Append(chunks, chunk)
        ELSE IF pieces[i] = <<",">> /\ depth = 0
             THEN ParseChunks(pieces, i + 1, depth, <<>>, Append(chunks, chunk))
             ELSE ParseChunks(pieces, i + 1,
                              IF pieces[i] = <<"[">> THEN depth + 1
                              ELSE IF pieces[i] = <<"]">> THEN depth - 1
                              ELSE depth,
                              Append(current, pieces[i]), chunks)

\* parse_possible_compound_uri(op, uri)
parse_possible_compound_uri(operator, uri) ==
    IF StartsWith(uri, <<"/">> \o operator \o <<"/">>)
    THEN ParseChunks(split_uri(uri), 3, 0, <<>>, <<>>)
    ELSE <<uri>>

(***************************************************************************)
(* get_uri_language(uri)                                                   *)
(***************************************************************************)
RECURSIVE get_uri_language_recanonicalized(_)
get_uri_language_recanonicalized(uri) ==
    IF StartsWith(uri, <<"/","a","/">>)
    THEN get_uri_language_recanonicalized(parse_possible_compound_uri(<<"a">>, uri)[1])
    ELSE IF StartsWith(uri, <<"/","c","/">>)
    THEN CanonicalLang(split_uri(uri)[2])
    ELSE None

RECURSIVE get_uri_language(_)
get_uri_language(uri) ==
    IF StartsWith(uri, <<"/","a","/">>)
    THEN get_uri_language(parse_possible_compound_uri(<<"a">>, uri)[1])
    ELSE IF StartsWith(uri, <<"/","c","/">>)
    THEN split_uri(uri)[2]
    ELSE None

(***************************************************************************)
(* valid_concept_name(text)                                                *)
(***************************************************************************)
valid_concept_name(text) == standardize_text(text, NoFilter) # <<>>

(***************************************************************************)
(* The arguments the calls are made with.                                  *)
(***************************************************************************)
SeqsUpTo(S, n) == UNION {[1..k -> S] : k \in 0..n}

TextChars == {"a", "b", "B", " ", "_", ","}
Texts == SeqsUpTo(TextChars, TextMaxLen)

SampleTexts == { <<>>, <<"B">>, <<"a"," ","b">>, <<"c","a","t">> }

Qualifiers == { None, <<"n">>, <<"a"," ","B">> }
Mores == SeqsUpTo(Qualifiers, MoreMaxLen)

FR == <<"f","r">>
ZH == <<"z","h">>
ZH_TW == <<"z","h","_","t","w">>

Capitalized(s) == IF s = <<>> THEN <<>> ELSE <<CharUpper(s[1])>> \o Tail(s)

\* the raw codes the filter choice is exercised with
CoreRawLangs == {EN, StrUpper(EN), Capitalized(EN), FR, ZH_TW}

\* every key and value of LCODE_ALIASES, 'en', 'fr' and '', in lower, upper and
\* capitalized spelling
RawLangs ==
    LET codes == AliasKeys \cup AliasValues \cup {EN, FR, <<>>}
    IN  codes \cup {StrUpper(c) : c \in codes} \cup {Capitalized(c) : c \in codes}

UriCalls ==
    (CoreRawLangs \X Texts \X {<<>>})
    \cup (CoreRawLangs \X SampleTexts \X Mores)
    \cup (RawLangs \X SampleTexts \X {<<>>})

TopicChars == {"b", " ", "(", ")", "_"}
Topics == SeqsUpTo(TopicChars, TopicMaxLen)

\* identifiers that are no compounds: concept URIs (canonical or not), a relation
\* and a source
ConceptUris ==
    { concept_uri(l, <<"c","a","t">>, more) :
          l \in {EN, StrUpper(EN), ZH, ZH_TW}, more \in {<<>>, <<<<"n">>>>} }
OtherUris == { <<"/","r","/","I","s","A">>, <<"/","s","/","x">> }
SimpleUris == ConceptUris \cup OtherUris

\* strings that are never part of a compound: concept URIs with an empty
\* component, and strings of no URI shape
DegenerateUris ==
    { <<"/","c","/">>, <<"/","c","/","/">>, <<"/","c","/","e","n">>, <<"/","c">>,
      <<"c","/","e","n","/","x">>, <<"/","a">>, <<>> }

\* the arguments after the first one of an assertion
RestArgs ==
    { << <<"/","c","/","f","r","/","x">> >>,
      << <<"/","c","/","e","n","/","c","a","t">>, <<"/","c","/","f","r","/","x">> >> }

\* [uri, args]: the identifiers nested at most n deep, with the sub-URIs each was
\* assembled from
RECURSIVE UrisOfDepth(_)
UrisOfDepth(n) ==
    IF n = 0 THEN {<<u, <<>>>> : u \in SimpleUris}
    ELSE LET below == UrisOfDepth(n - 1)
         IN  below \cup
             { <<compound_uri(<<"/","a">>, <<f[1]>> \o rest), <<f[1]>> \o rest>> :
                   f \in below, rest \in RestArgs }

UriInputs == UrisOfDepth(MaxDepth) \cup {<<u, <<>>>> : u \in DegenerateUris}

(***************************************************************************)
(* The state machine: one call at a time, each action a whole call.        *)
(***************************************************************************)
Init ==
    /\ pc = "idle"
    /\ op = "none"
    /\ lang_in = <<>>
    /\ text_in = <<>>
    /\ more_in = <<>>
    /\ uri_in = <<>>
    /\ uri_args = <<>>
    /\ token_filter = NoFilter
    /\ lang = <<>>
    /\ norm_text = <<>>
    /\ more_text = <<>>
    /\ result = None
    /\ raised = NoError
    /\ message = <<>>

CallStandardizeText ==
    /\ pc = "idle"
    /\ \E text \in Texts, filter \in {NoFilter, EnglishFilter} :
          /\ text_in' = text
          /\ token_filter' = filter
          /\ result' = standardize_text(text, filter)
    /\ pc' = "done"
    /\ op' = "standardize_text"
    /\ raised' = NoError
    /\ UNCHANGED <<lang_in, more_in, uri_in, uri_args, lang, norm_text, more_text, message>>

CallStandardizedConceptUri ==
    /\ pc = "idle"
    /\ \E call \in UriCalls :
          LET r == standardized_concept_uri(call[1], call[2], call[3])
          IN  /\ lang_in' = call[1]
              /\ text_in' = call[2]
              /\ more_in' = call[3]
              /\ token_filter' = r.token_filter
              /\ lang' = r.lang
              /\ norm_text' = r.norm_text
              /\ more_text' = r.more_text
              /\ result' = r.uri
    /\ pc' = "done"
    /\ op' = "standardized_concept_uri"
    /\ raised' = NoError
    /\ UNCHANGED <<uri_in, uri_args, message>>

CallTopicToConcept ==
    /\ pc = "idle"
    /\ \E language \in {EN}, topic \in Topics :
          /\ lang_in' = language
          /\ text_in' = topic
          /\ result' = topic_to_concept(language, topic)
    /\ pc' = "done"
    /\ op' = "topic_to_concept"
    /\ raised' = NoError
    /\ UNCHANGED <<more_in, uri_in, uri_args, token_filter, lang, norm_text, more_text,
                   message>>

CallStandardizedConceptName ==
    /\ pc = "idle"
    /\ \E l \in CoreRawLangs, text \in Texts :
          LET r == standardized_concept_name(l, text)
          IN  /\ lang_in' = l
              /\ text_in' = text
              /\ result' = r.value
              /\ raised' = r.raised
              /\ message' = r.message
    /\ pc' = "done"
    /\ op' = "standardized_concept_name"
    /\ UNCHANGED <<more_in, uri_in, uri_args, token_filter, lang, norm_text, more_text>>

CallNormalizedConceptName ==
    /\ pc = "idle"
    /\ \E l \in CoreRawLangs, text \in Texts :
          LET r == normalized_concept_name(l, text)
          IN  /\ lang_in' = l
              /\ text_in' = text
              /\ result' = r.value
              /\ raised' = r.raised
              /\ message' = r.message
    /\ pc' = "done"
    /\ op' = "normalized_concept_name"
    /\ UNCHANGED <<more_in, uri_in, uri_args, token_filter, lang, norm_text, more_text>>

CallGetUriLanguage ==
    /\ pc = "idle"
    /\ \E input \in UriInputs :
          /\ uri_in' = input[1]
          /\ uri_args' = input[2]
          /\ result' = get_uri_language(input[1])
    /\ pc' = "done"
    /\ op' = "get_uri_language"
    /\ raised' = NoError
    /\ UNCHANGED <<lang_in, text_in, more_in, token_filter, lang, norm_text, more_text,
                   message>>

CallValidConceptName ==
    /\ pc = "idle"
    /\ \E text \in Texts :
          /\ text_in' = text
          /\ result' = <<IF valid_concept_name(text) THEN "True" ELSE "False">>
    /\ pc' = "done"
    /\ op' = "valid_concept_name"
    /\ raised' = NoError
    /\ UNCHANGED <<lang_in, more_in, uri_in, uri_args, token_filter, lang, norm_text,
                   more_text, message>>

\* the caller takes the result; the module keeps nothing between calls
Return ==
    /\ pc = "done"
    /\ pc' = "idle"
    /\ op' = "none"
    /\ lang_in' = <<>>
    /\ text_in' = <<>>
    /\ more_in' = <<>>
    /\ uri_in' = <<>>
    /\ uri_args' = <<>>
    /\ token_filter' = NoFilter
    /\ lang' = <<>>
    /\ norm_text' = <<>>
    /\ more_text' = <<>>
    /\ result' = None
    /\ raised' = NoError
    /\ message' = <<>>

Next ==
    \/ CallStandardizeText
    \/ CallStandardizedConceptUri
    \/ CallTopicToConcept
    \/ CallStandardizedConceptName
    \/ CallNormalizedConceptName
    \/ CallGetUriLanguage
    \/ CallValidConceptName
    \/ Return

Spec == Init /\ [][Next]_vars

(***************************************************************************)
(* The properties.                                                         *)
(***************************************************************************)
Returned(name) == pc = "done" /\ op = name

\* a raw code lowercased, then replaced by its LCODE_ALIASES target if it has one
CanonicalForm(raw) ==
    LET lowered == [i \in DOMAIN raw |-> CharLower(raw[i])]
    IN  IF \E p \in LCODE_ALIASES : p[1] = lowered
        THEN (CHOOSE p \in LCODE_ALIASES : p[1] = lowered)[2]
        ELSE lowered

IsQualifier(q) == q # None

\* the qualifiers that are not None, in their order
KeptQualifiers(more) == SelectSeq(more, IsQualifier)

\* C1: standardized_concept_uri chooses the English filter exactly when the
\* canonicalized form of the raw language code is 'en', so that the identifier
\* made from a raw code equals the one made from its lowercase spelling.
C1_FilterChosenOnCanonicalCode ==
    Returned("standardized_concept_uri") =>
        /\ (token_filter = EnglishFilter) <=> (CanonicalForm(lang_in) = EN)
        /\ result = standardized_concept_uri(StrLower(lang_in), text_in, more_in).uri

\* C2: get_uri_language of the URI standardized_concept_uri returns is the
\* canonicalized form of the raw language code.
C2_LanguageRoundTrip ==
    Returned("standardized_concept_uri") =>
        get_uri_language(result) = CanonicalForm(lang_in)

C2_Witness ==
    /\ Returned("standardized_concept_uri")
    /\ lang_in = StrUpper(ZH_TW)
    /\ get_uri_language(result) = ZH

C4_NoneQualifiersSkipped ==
    Returned("standardized_concept_uri") =>
        LET kept == KeptQualifiers(more_in)
        IN  /\ Len(more_text) = Cardinality({i \in DOMAIN more_in : more_in[i] # None})
            /\ Len(more_text) = Len(kept)
            /\ \A k \in 1..Len(kept) :
                  more_text[k] = standardize_text(kept[k], token_filter)
            /\ result = concept_uri(lang, norm_text, more_text)
            /\ Len(split_uri(result)) = 3 + Len(kept)

C4_Witness ==
    /\ Returned("standardized_concept_uri")
    /\ more_in = <<None, <<"n">>>>
    /\ more_text = << <<"n">> >>

\* C5: with underscores replaced by spaces, a topic that begins with one or more
\* non-'(' characters, a space, '(', one or more non-')' characters and ')' gives
\* standardized_concept_uri(language, part before ' (', 'n', 'wp', text inside),
\* whatever follows the ')'; any other topic gives
\* standardized_concept_uri(language, topic).
C5_TopicToConcept ==
    Returned("topic_to_concept") =>
        LET t == [i \in DOMAIN text_in |-> IF text_in[i] = "_" THEN " " ELSE text_in[i]]
            Shapes == { ij \in (1..Len(t)) \X (1..Len(t)) :
                           /\ ij[1] + 3 < ij[2]
                           /\ \A k \in 1..ij[1] : t[k] # "("
                           /\ t[ij[1] + 1] = " "
                           /\ t[ij[1] + 2] = "("
                           /\ \A k \in (ij[1] + 3)..(ij[2] - 1) : t[k] # ")"
                           /\ t[ij[2]] = ")" }
        IN  /\ Cardinality(Shapes) <= 1
            /\ \A ij \in Shapes :
                  result = standardized_concept_uri(
                               lang_in, SubSeq(t, 1, ij[1]),
                               << <<"n">>, <<"w","p">>, SubSeq(t, ij[1] + 3, ij[2] - 1) >>).uri
            /\ Shapes = {} => result = standardized_concept_uri(lang_in, t, <<>>).uri

C5_Witness ==
    /\ Returned("topic_to_concept")
    /\ lang_in = EN
    /\ text_in = <<"b","_","(","b",")","b">>
    /\ result = <<"/","c","/","e","n","/","b","/","n","/","w","p","/","b">>

\* C6: standardize_text without a filter is idempotent, and its result is
\* lowercase.
C6_StandardizeIdempotent ==
    (Returned("standardize_text") /\ token_filter = NoFilter) =>
        /\ standardize_text(result, NoFilter) = result
        /\ result = StrLower(result)

C6_Witness ==
    /\ Returned("standardize_text")
    /\ token_filter = NoFilter
    /\ text_in = <<"B",",","a">>
    /\ result = <<"b","_","a">>

C8_RemovedEntryPointAlwaysFails ==
    pc = "done" =>
        IF op \in {"standardized_concept_name", "normalized_concept_name"}
        THEN /\ raised = "NotImplementedError"
             /\ "standardize_text" \in Range(message)
             /\ result = None
        ELSE raised = NoError

C8_Witness ==
    /\ Returned("normalized_concept_name")
    /\ text_in = <<"a"," ","b">>
    /\ raised = "NotImplementedError"

\* C9: canonicalization is idempotent: canonicalizing the canonical code again
\* returns it unchanged; no value of LCODE_ALIASES is a key, and every value is
\* lowercase.
C9_CanonicalizationIdempotent ==
    /\ Returned("standardized_concept_uri") =>
          /\ CanonicalLang(lang) = lang
          /\ lang \notin AliasKeys
    /\ \A p \in LCODE_ALIASES :
          /\ p[2] \notin AliasKeys
          /\ StrLower(p[2]) = p[2]

C9_Witness ==
    /\ Returned("standardized_concept_uri")
    /\ lang_in = <<"C","M","N">>
    /\ lang = ZH

\* C10: the token filter is not applied to the qualifiers, for any language:
\* each kept qualifier is tokenized, lowercased and underscore-joined only.
C10_QualifiersNotFiltered ==
    Returned("standardized_concept_uri") =>
        /\ Len(more_text) = Len(KeptQualifiers(more_in))
        /\ \A k \in DOMAIN more_text :
              more_text[k] = standardize_text(KeptQualifiers(more_in)[k], NoFilter)

====
